---------------------------- MODULE Spec2Model ----------------------------
(***************************************************************************)
(* Portfolio Beta Calculator (src/app.py): the session state (portfolio    *)
(* list and cash balance), the persisted JSON document, the quote          *)
(* resolver, the beta aggregation and the handlers of the Streamlit        *)
(* script.                                                                 *)
(*                                                                         *)
(* Python values are modelled as tagged records (number, string, None,     *)
(* list, dict).  A Python number is an exact rational p/q in lowest terms: *)
(* the rounding of binary floating point is not modelled.                  *)
(***************************************************************************)
EXTENDS Integers, Sequences, FiniteSets, TLC

VARIABLES
    file,          \* portfolio_data.json: absent, or its text as JSON tokens
    portfolio,     \* st.session_state.portfolio
    cash_balance,  \* st.session_state.cash_balance
    notice,        \* what the last script run reported to the user
    last_save,     \* outcome of the last save_portfolio_data call
    disk,          \* whether the file can be written during this session
    call,          \* function-level specification: the function applied last
    ret            \* function-level specification: what it returned

vars == <<file, portfolio, cash_balance, notice, last_save, disk, call, ret>>

---------------------------------------------------------------------------
(* Bounds of the model *)

\* most positions the session portfolio is grown to by the add handler
MaxPositions == 1

\* longest portfolio the function-level specification draws
MaxFnLen == 2

---------------------------------------------------------------------------
(* Python numbers: exact rationals *)

Abs(n) == IF n < 0 THEN -n ELSE n

RECURSIVE GCD(_, _)
GCD(a, b) == IF b = 0 THEN a ELSE GCD(b, a % b)

\* the number p/q (q > 0), in lowest terms
Rat(p, q) ==
    LET g == GCD(Abs(p), q)
    IN  [t |-> "num", p |-> p \div g, q |-> q \div g]

\* an integer, and a decimal given in hundredths (2.98 is Dec(298))
Int_(n) == Rat(n, 1)
Dec(h) == Rat(h, 100)

RAdd(a, b) == Rat(a.p * b.q + b.p * a.q, a.q * b.q)
RMul(a, b) == Rat(a.p * b.p, a.q * b.q)
\* a / b for b # 0
RDiv(a, b) == IF b.p > 0 THEN Rat(a.p * b.q, a.q * b.p)
                         ELSE Rat(-(a.p * b.q), a.q * (-b.p))
RLt(a, b) == a.p * b.q < b.p * a.q
RLe(a, b) == a.p * b.q <= b.p * a.q
RAbs(a) == [t |-> "num", p |-> Abs(a.p), q |-> a.q]

---------------------------------------------------------------------------
(* Python values *)

Str(s) == [t |-> "str", s |-> s]
None == [t |-> "none"]
List(items) == [t |-> "list", items |-> items]
Dict(o) == [t |-> "dict", o |-> o]

IsNum(v) == v.t = "num"
IsList(v) == v.t = "list"
IsDict(v) == v.t = "dict"

\* bool(v)
Truthy(v) ==
    CASE v.t = "none" -> FALSE
      [] v.t = "num"  -> v.p # 0
      [] v.t = "str"  -> v.s # ""
      [] v.t = "list" -> v.items # <<>>
      [] v.t = "dict" -> DOMAIN v.o # {}

\* d.get(key, default)
DictGet(d, key, default) == IF key \in DOMAIN d.o THEN d.o[key] ELSE default

\* d[key] = value
DictSet(d, key, value) ==
    Dict([k \in DOMAIN d.o \cup {key} |-> IF k = key THEN value ELSE d.o[k]])

---------------------------------------------------------------------------
(* JSON text, as a sequence of tokens *)

Punct(c) == [k |-> c]
TNum(v) == [k |-> "num", v |-> v]
TStr(s) == [k |-> "str", s |-> s]

\* the keys of the documents and positions the program writes, in the order
\* it inserts them; any other key follows
KeyOrder == <<"portfolio", "cash_balance",
              "ticker", "price", "beta", "name", "sector", "shares">>

RECURSIVE SetToSeq(_)
SetToSeq(S) ==
    IF S = {} THEN <<>>
    ELSE LET x == CHOOSE y \in S : TRUE IN <<x>> \o SetToSeq(S \ {x})

KeysOf(o) ==
    LET known == SelectSeq(KeyOrder, LAMBDA k : k \in DOMAIN o)
        other == DOMAIN o \ {KeyOrder[i] : i \in DOMAIN KeyOrder}
    IN  known \o SetToSeq(other)

RECURSIVE Dump(_), DumpItems(_, _), DumpMembers(_, _, _)

\* json.dump: the tokens of a value
Dump(v) ==
    CASE v.t = "num"  -> <<TNum(v)>>
      [] v.t = "str"  -> <<TStr(v.s)>>
      [] v.t = "none" -> <<Punct("null")>>
      [] v.t = "list" -> <<Punct("[")>> \o DumpItems(v.items, 1) \o <<Punct("]")>>
      [] v.t = "dict" -> <<Punct("{")>> \o DumpMembers(v.o, KeysOf(v.o), 1)
                                        \o <<Punct("}")>>

DumpItems(items, i) ==
    IF i > Len(items) THEN <<>>
    ELSE (IF i > 1 THEN <<Punct(",")>> ELSE <<>>)
         \o Dump(items[i]) \o DumpItems(items, i + 1)

DumpMembers(o, keys, i) ==
    IF i > Len(keys) THEN <<>>
    ELSE (IF i > 1 THEN <<Punct(",")>> ELSE <<>>)
         \o <<TStr(keys[i]), Punct(":")>> \o Dump(o[keys[i]])
         \o DumpMembers(o, keys, i + 1)

ParseFail == [ok |-> FALSE]
ParseOk(v, i) == [ok |-> TRUE, v |-> v, i |-> i]

RECURSIVE ParseValue(_, _), ParseElements(_, _, _), ParseMembers(_, _, _)

\* the JSON value that starts at token i, and the index after it
ParseValue(ts, i) ==
    IF i > Len(ts) THEN ParseFail
    ELSE CASE ts[i].k = "num"  -> ParseOk(ts[i].v, i + 1)
           [] ts[i].k = "str"  -> ParseOk(Str(ts[i].s), i + 1)
           [] ts[i].k = "null" -> ParseOk(None, i + 1)
           [] ts[i].k = "["    ->
                IF i + 1 <= Len(ts) /\ ts[i + 1].k = "]"
                THEN ParseOk(List(<<>>), i + 2)
                ELSE ParseElements(ts, i + 1, <<>>)
           [] ts[i].k = "{"    ->
                IF i + 1 <= Len(ts) /\ ts[i + 1].k = "}"
                THEN ParseOk(Dict(<<>>), i + 2)
                ELSE ParseMembers(ts, i + 1, Dict(<<>>))
           [] OTHER -> ParseFail

ParseElements(ts, i, acc) ==
    LET r == ParseValue(ts, i)
    IN  IF ~r.ok \/ r.i > Len(ts) THEN ParseFail
        ELSE IF ts[r.i].k = "," THEN ParseElements(ts, r.i + 1, Append(acc, r.v))
        ELSE IF ts[r.i].k = "]" THEN ParseOk(List(Append(acc, r.v)), r.i + 1)
        ELSE ParseFail

ParseMembers(ts, i, acc) ==
    IF i + 1 > Len(ts) \/ ts[i].k # "str" \/ ts[i + 1].k # ":" THEN ParseFail
    ELSE LET r == ParseValue(ts, i + 2)
         IN  IF ~r.ok \/ r.i > Len(ts) THEN ParseFail
             ELSE IF ts[r.i].k = ","
                  THEN ParseMembers(ts, r.i + 1, DictSet(acc, ts[i].s, r.v))
             ELSE IF ts[r.i].k = "}"
                  THEN ParseOk(DictSet(acc, ts[i].s, r.v), r.i + 1)
             ELSE ParseFail

\* json.load: the document's value, or a failure (JSONDecodeError) when the
\* text is no single JSON value
json_load(ts) ==
    LET r == ParseValue(ts, 1)
    IN  IF r.ok /\ r.i = Len(ts) + 1 THEN r ELSE ParseFail

json_dump(v) == Dump(v)

---------------------------------------------------------------------------
(* The persisted document *)

NoFile == [exists |-> FALSE]
FileOf(ts) == [exists |-> TRUE, text |-> ts]

session_state == [portfolio |-> portfolio, cash_balance |-> cash_balance]

\* the document save_portfolio_data builds from the session state
SaveData(ss) ==
    Dict([portfolio |-> ss.portfolio, cash_balance |-> ss.cash_balance])

\* A failed write leaves the file as it was (open failed) or cut short (the
\* file is truncated on open and the dump stops part way).  Every proper
\* prefix of a document is unparseable; two of them stand for all.
\* The disk is writable, read-only or full for a whole session.
DiskModes == {"ok", "readonly", "full"}
WriteOutcomes(mode) ==
    CASE mode = "ok"       -> {"ok"}
      [] mode = "readonly" -> {"open_failed"}
      [] mode = "full"     -> {"cut_empty", "cut_half"}

\* save_portfolio_data: the file after the call, under a write outcome
save_portfolio_data(ss, old, outcome) ==
    LET text == json_dump(SaveData(ss))
    IN  CASE outcome = "ok"          -> FileOf(text)
          [] outcome = "open_failed" -> old
          [] outcome = "cut_empty"   -> FileOf(<<>>)
          [] outcome = "cut_half"    -> FileOf(SubSeq(text, 1, Len(text) \div 2))

SaveStatus(outcome) == IF outcome = "ok" THEN "ok" ELSE "failed"

\* deviation for C2: a load that looks the cash balance up under another key
load_other_key(f) ==
    LET empty == [portfolio |-> List(<<>>), cash_balance |-> Dec(0)]
    IN  IF ~f.exists THEN [data |-> empty, error |-> FALSE]
        ELSE LET r == json_load(f.text)
             IN  IF ~r.ok THEN [data |-> empty, error |-> TRUE]
                 ELSE IF ~IsDict(r.v) THEN [data |-> empty, error |-> TRUE]
                 ELSE [data |-> [portfolio |-> DictGet(r.v, "portfolio", List(<<>>)),
                                 cash_balance |-> DictGet(r.v, "cash", Dec(0))],
                       error |-> FALSE]

\* load_portfolio_data: the pair it returns and whether it reported an error
load_portfolio_data(f) ==
    LET empty == [portfolio |-> List(<<>>), cash_balance |-> Dec(0)]
    IN  IF ~f.exists THEN [data |-> empty, error |-> FALSE]
        ELSE LET r == json_load(f.text)
             IN  IF ~r.ok THEN [data |-> empty, error |-> TRUE]
                 ELSE IF ~IsDict(r.v) THEN [data |-> empty, error |-> TRUE]
                 ELSE [data |-> [portfolio |-> DictGet(r.v, "portfolio", List(<<>>)),
                                 cash_balance |-> DictGet(r.v, "cash_balance", Dec(0))],
                       error |-> FALSE]

---------------------------------------------------------------------------
(* Quote resolver *)

\* KNOWN_BETAS, in hundredths
KnownBetaTable ==
    [TQQQ |-> 298, UPRO |-> 295, TECL |-> 297, SOXL |-> 315, FAS |-> 288,
     TNA |-> 292, LABU |-> 305, NUGT |-> 320,
     SQQQ |-> -298, SPXU |-> -295, TECS |-> -297, SOXS |-> -315, FAZ |-> -288,
     TZA |-> -292,
     QLD |-> 200, SSO |-> 198, UWM |-> 195,
     QQQ |-> 105, SPY |-> 100, IWM |-> 115, DIA |-> 95, VTI |-> 100,
     VOO |-> 100, AGG |-> 5, TLT |-> -15, GLD |-> 10,
     NVDA |-> 168, TSLA |-> 229, META |-> 118, AAPL |-> 124, MSFT |-> 89,
     GOOGL |-> 105, AMZN |-> 115, NFLX |-> 135, AMD |-> 182, INTC |-> 78]

KNOWN_BETAS == [k \in DOMAIN KnownBetaTable |-> Dec(KnownBetaTable[k])]

\* str.upper, on the ticker texts the model types in
Upper(s) ==
    CASE s = "tqqq" -> "TQQQ"
      [] s = "Spy"  -> "SPY"
      [] s = "abc"  -> "ABC"
      [] OTHER      -> s

\* What yf.Ticker(ticker).info does: it raises, or it yields a dict in which
\* any key may be absent.
Raised == [raised |-> TRUE]
Info(o) == [raised |-> FALSE, info |-> Dict(o)]

\* a or b: a when a is truthy, else b
PyOr(a, b) == IF Truthy(a) THEN a ELSE b

\* the beta of get_stock_data (line 148)
ResolveBeta(ticker, info) ==
    IF Upper(ticker) \in DOMAIN KNOWN_BETAS
    THEN KNOWN_BETAS[Upper(ticker)]
    ELSE DictGet(info, "beta", Dec(100))

\* the price of get_stock_data (lines 140-145)
ResolvePrice(info) ==
    PyOr(DictGet(info, "currentPrice", None),
         PyOr(DictGet(info, "regularMarketPrice", None),
              PyOr(DictGet(info, "previousClose", None), Int_(0))))

\* get_stock_data: the position dict, or None when the lookup raised
get_stock_data(ticker, reply) ==
    IF reply.raised THEN None
    ELSE Dict([ticker |-> Str(Upper(ticker)),
               price  |-> ResolvePrice(reply.info),
               beta   |-> ResolveBeta(ticker, reply.info),
               name   |-> DictGet(reply.info, "shortName", Str(ticker)),
               sector |-> DictGet(reply.info, "sector", Str("Unknown"))])

---------------------------------------------------------------------------
(* Beta aggregation *)

RECURSIVE SumValue(_, _)
\* sum(stock['price'] * stock['shares'] for stock in portfolio), from row i
SumValue(items, i) ==
    IF i > Len(items) THEN Int_(0)
    ELSE RAdd(RMul(items[i].o["price"], items[i].o["shares"]),
              SumValue(items, i + 1))

RECURSIVE SumWeighted(_, _, _)
\* sum((price * shares / total_value) * beta for stock in portfolio), from row i
SumWeighted(items, total_value, i) ==
    IF i > Len(items) THEN Int_(0)
    ELSE RAdd(RMul(RDiv(RMul(items[i].o["price"], items[i].o["shares"]),
                        total_value),
                   items[i].o["beta"]),
              SumWeighted(items, total_value, i + 1))

\* deviation for C5: the weights taken over stock value plus cash
portfolio_beta_over_assets(ss) ==
    IF ~Truthy(ss.portfolio) THEN Dec(0)
    ELSE LET total_value == SumValue(ss.portfolio.items, 1)
             total_assets == RAdd(total_value, ss.cash_balance)
         IN  IF total_value = Int_(0) THEN Dec(0)
             ELSE SumWeighted(ss.portfolio.items, total_assets, 1)

\* calculate_portfolio_beta, over the session state it reads
calculate_portfolio_beta(ss) ==
    IF ~Truthy(ss.portfolio) THEN Dec(0)
    ELSE LET total_value == SumValue(ss.portfolio.items, 1)
         IN  IF total_value = Int_(0) THEN Dec(0)
             ELSE SumWeighted(ss.portfolio.items, total_value, 1)

\* deviation for C6: the upper bound of each band inclusive
get_risk_level_inclusive(beta) ==
    LET beta_abs == RAbs(beta)
    IN  IF RLe(beta_abs, Dec(80)) THEN <<"Low Risk", "risk-low">>
        ELSE IF RLe(beta_abs, Dec(120)) THEN <<"Neutral Risk", "risk-medium">>
        ELSE IF RLe(beta_abs, Dec(200)) THEN <<"Higher Risk", "risk-medium">>
        ELSE <<"High Risk", "risk-high">>

\* get_risk_level: the label and the style class
get_risk_level(beta) ==
    LET beta_abs == RAbs(beta)
    IN  IF RLt(beta_abs, Dec(80)) THEN <<"Low Risk", "risk-low">>
        ELSE IF RLt(beta_abs, Dec(120)) THEN <<"Neutral Risk", "risk-medium">>
        ELSE IF RLt(beta_abs, Dec(200)) THEN <<"Higher Risk", "risk-medium">>
        ELSE <<"High Risk", "risk-high">>

---------------------------------------------------------------------------
(* Widgets *)

\* the bounds of the beta inputs (lines 267-268, 383-384), in hundredths
BetaMin == -500
BetaMax == 500
\* the default of the share count input (line 275)
DefaultShares == 100

InRange(v, lo, hi) == RLe(lo, v) /\ RLe(v, hi)

\* st.number_input: the widget keeps its value when what is typed lies outside
\* [min_value, max_value], so the script gets the typed value only in range
number_input(typed, lo, hi, value) ==
    IF InRange(typed, lo, hi) THEN typed ELSE value

\* st.number_input with min_value only
number_input_min(typed, lo, value) ==
    IF RLe(lo, typed) THEN typed ELSE value

\* st.number_input raises when the value it is given lies outside its bounds
\* or is no number
WidgetRaises(value, lo, hi) == ~IsNum(value) \/ ~InRange(value, lo, hi)
WidgetRaisesMin(value, lo) == ~IsNum(value) \/ ~RLe(lo, value)

---------------------------------------------------------------------------
(* Inputs of the model *)

FullInfo ==
    Info([currentPrice |-> Int_(60), beta |-> Dec(150),
          shortName |-> Str("Acme"), sector |-> Str("Tech")])

\* the ticker box and the provider's answer to the sidebar's lookup (lines
\* 236-256) in a run that is no add: the box is empty, or it holds an unknown
\* ticker for which the provider reports a beta above the input's maximum
SidebarContexts ==
    { <<"", Raised>>, <<"ABC", Info([beta |-> Dec(620)])>> }

\* the adds the user makes: ticker text, the provider's answer to the
\* sidebar's lookup, its answer to get_stock_data, and what is typed into the
\* beta and share count inputs
AddInputs ==
    { \* no ticker
      <<"", Raised, Raised, Dec(500), Int_(0)>>,
      \* a ticker of KNOWN_BETAS, the provider fails
      <<"tqqq", Raised, Raised, Dec(500), Int_(0)>>,
      \* a ticker of KNOWN_BETAS, both typed values out of range
      <<"tqqq", Raised, FullInfo, Dec(501), Int_(-1)>>,
      \* an unknown ticker, the provider fails
      <<"ABC", Raised, Raised, Dec(-501), Int_(0)>>,
      \* an unknown ticker, the provider returns an empty record
      <<"ABC", Raised, Info(<<>>), Dec(500), Int_(0)>>,
      \* an unknown ticker with a beta the input cannot show
      <<"ABC", Info([beta |-> Dec(620)]), FullInfo, Dec(500), Int_(0)>>,
      \* an unknown ticker with a beta from the provider, kept as typed value
      \* is out of range
      <<"ABC", Info([beta |-> Dec(150)]), FullInfo, Dec(-501), Int_(5)>> }

\* what the user types into a row's beta input and into the cash input
BetaTyped == {Dec(-501), Dec(-500), Dec(501)}
CashTyped == {Dec(-100), Dec(0), Dec(100000)}

---------------------------------------------------------------------------
(* The sidebar, up to the add button (lines 236-275) *)

\* auto_beta (lines 239-256)
AutoBeta(ticker_input, side) ==
    IF ticker_input = "" THEN None
    ELSE IF ticker_input \in DOMAIN KNOWN_BETAS THEN KNOWN_BETAS[ticker_input]
    ELSE IF side.raised THEN None
    ELSE LET api_beta == DictGet(side.info, "beta", None)
         IN  IF Truthy(api_beta) THEN api_beta ELSE None

\* default_beta (line 264)
DefaultBeta(ticker_input, side) ==
    LET auto_beta == AutoBeta(ticker_input, side)
    IN  IF auto_beta # None THEN auto_beta ELSE Dec(100)

\* the beta input raises on a default outside its bounds, which ends the run
SidebarRaises(text, side) ==
    WidgetRaises(DefaultBeta(Upper(text), side), Dec(BetaMin), Dec(BetaMax))

\* the cash input (lines 295-301) raises on a stored balance it cannot show
CashWidgetRaises == WidgetRaisesMin(cash_balance, Dec(0))

\* a run that ends in an uncaught exception changes nothing
Abort ==
    /\ notice' = "exception"
    /\ UNCHANGED <<file, portfolio, cash_balance, last_save, disk, call, ret>>

\* a run in which no handler fires
Idle ==
    /\ notice' = "none"
    /\ UNCHANGED <<file, portfolio, cash_balance, last_save, disk, call, ret>>

\* deviation for C1: a handler that changes the session state and leaves the
\* save out
CommitUnsaved(new_portfolio, new_cash, outcome, said) ==
    /\ portfolio' = new_portfolio
    /\ cash_balance' = new_cash
    /\ notice' = said
    /\ UNCHANGED <<file, last_save, disk, call, ret>>

\* the end of a handler that changed the session state: save, then rerun
Commit(new_portfolio, new_cash, outcome, said) ==
    /\ portfolio' = new_portfolio
    /\ cash_balance' = new_cash
    /\ file' = save_portfolio_data(
                   [portfolio |-> new_portfolio, cash_balance |-> new_cash],
                   file, outcome)
    /\ last_save' = SaveStatus(outcome)
    /\ notice' = said
    /\ UNCHANGED <<disk, call, ret>>

---------------------------------------------------------------------------
(* List operations *)

\* list.append
append(items, x) == Append(items, x)

\* deviation for C8: an index beyond the end removes the last entry
pop_clamped(items, idx) ==
    LET n == Len(items)
        j == IF idx < 0 THEN idx + n ELSE IF idx >= n THEN n - 1 ELSE idx
    IN  IF j < 0 \/ j >= n
        THEN [raised |-> TRUE, items |-> items]
        ELSE [raised |-> FALSE,
              items |-> SubSeq(items, 1, j) \o SubSeq(items, j + 2, n)]

\* list.pop(idx), idx counted from 0: IndexError outside the list
pop(items, idx) ==
    LET n == Len(items)
        j == IF idx < 0 THEN idx + n ELSE idx
    IN  IF j < 0 \/ j >= n
        THEN [raised |-> TRUE, items |-> items]
        ELSE [raised |-> FALSE,
              items |-> SubSeq(items, 1, j) \o SubSeq(items, j + 2, n)]

\* deviation for C7: the new beta written into every row
set_beta_everywhere(items, idx, new_beta) ==
    [i \in 1..Len(items) |-> DictSet(items[i], "beta", new_beta)]

\* portfolio[idx]['beta'] = new_beta, idx counted from 0
set_beta(items, idx, new_beta) ==
    [items EXCEPT ![idx + 1] = DictSet(items[idx + 1], "beta", new_beta)]

---------------------------------------------------------------------------
(* Session: one action per interaction, each a whole run of the script *)

\* a new session: lines 128-131
Restart ==
    LET loaded == load_portfolio_data(file)
    IN  /\ portfolio' = loaded.data.portfolio
        /\ cash_balance' = loaded.data.cash_balance
        /\ notice' = IF loaded.error THEN "load_failed" ELSE "loaded"
        /\ UNCHANGED <<file, last_save, disk, call, ret>>

\* the add button: lines 277-289
Add(text, side, reply, typed_beta, typed_shares, outcome) ==
    LET ticker_input == Upper(text)
        beta_input == number_input(typed_beta, Dec(BetaMin), Dec(BetaMax),
                                   DefaultBeta(ticker_input, side))
        shares_input == number_input_min(typed_shares, Int_(0), Int_(DefaultShares))
        stock_data == get_stock_data(ticker_input, reply)
        position == DictSet(DictSet(stock_data, "shares", shares_input),
                            "beta", beta_input)
    IN  IF SidebarRaises(text, side) THEN Abort
        ELSE IF ticker_input = ""
        THEN /\ notice' = "input_error"
             /\ UNCHANGED <<file, portfolio, cash_balance, last_save, disk, call, ret>>
        ELSE IF ~Truthy(stock_data)
        THEN /\ notice' = "quote_error"
             /\ UNCHANGED <<file, portfolio, cash_balance, last_save, disk, call, ret>>
        ELSE IF ~IsList(portfolio) THEN Abort
        ELSE /\ Len(portfolio.items) < MaxPositions
             /\ Commit(List(append(portfolio.items, position)), cash_balance,
                       outcome, "none")

\* the last run drew the cash input and the reset button (lines 295-310)
CashRendered == ~CashWidgetRaises

\* the last run drew the controls of row idx (lines 317-399): the cash input
\* did not raise, the portfolio is a list with that row, and the beta input
\* of every row up to idx took its value
RowRendered(idx) ==
    /\ ~CashWidgetRaises
    /\ IsList(portfolio)
    /\ idx < Len(portfolio.items)
    /\ \A i \in 0..idx :
          ~WidgetRaises(portfolio.items[i + 1].o["beta"], Dec(BetaMin), Dec(BetaMax))

\* the cash input: lines 295-305
CashEdit(text, side, typed, outcome) ==
    /\ CashRendered
    /\ IF SidebarRaises(text, side) THEN Abort
       ELSE LET cash_input == number_input_min(typed, Dec(0), cash_balance)
            IN  IF cash_input # cash_balance
                THEN Commit(portfolio, cash_input, outcome, "none")
                ELSE Idle

\* the reset button: lines 310-314
Reset(text, side, outcome) ==
    /\ CashRendered
    /\ IF SidebarRaises(text, side) THEN Abort
       ELSE Commit(List(<<>>), Dec(0), outcome, "none")

\* the save button of row idx: lines 381-396
BetaEdit(text, side, idx, typed, outcome) ==
    /\ RowRendered(idx)
    /\ IF SidebarRaises(text, side) THEN Abort
       ELSE LET stock == portfolio.items[idx + 1]
                new_beta == number_input(typed, Dec(BetaMin), Dec(BetaMax),
                                         stock.o["beta"])
            IN  IF new_beta # stock.o["beta"]
                THEN Commit(List(set_beta(portfolio.items, idx, new_beta)),
                            cash_balance, outcome, "none")
                ELSE Idle

\* the delete button of row idx: lines 398-402
Delete(text, side, idx, outcome) ==
    /\ RowRendered(idx)
    /\ IF SidebarRaises(text, side) THEN Abort
       ELSE Commit(List(pop(portfolio.items, idx).items), cash_balance,
                   outcome, "none")

---------------------------------------------------------------------------
(* The documents a session may find on disk *)

SavedPosition ==
    Dict([ticker |-> Str("SPY"), price |-> Int_(550), beta |-> Dec(100),
          name |-> Str("SPDR S&P 500"), sector |-> Str("Unknown"),
          shares |-> Int_(10)])

OtherSavedPosition ==
    Dict([ticker |-> Str("TQQQ"), price |-> Int_(60), beta |-> Dec(298),
          name |-> Str("ProShares UltraPro QQQ"), sector |-> Str("Unknown"),
          shares |-> Int_(100)])

\* what the program saved for a portfolio of two positions
SavedFile ==
    FileOf(json_dump(SaveData(
        [portfolio |-> List(<<SavedPosition, OtherSavedPosition>>),
         cash_balance |-> Dec(100000)])))

\* a position no widget of the program would have stored
ForeignPosition ==
    Dict([ticker |-> Str("SPY"), price |-> Int_(550), beta |-> Dec(700),
          name |-> Str("SPDR S&P 500"), sector |-> Str("Unknown"),
          shares |-> Int_(-1)])

InitialFiles ==
    { NoFile,
      \* no JSON value: empty, cut short, two values
      FileOf(<<>>),
      FileOf(<<Punct("{"), TStr("portfolio"), Punct(":")>>),
      FileOf(json_dump(Dict(<<>>)) \o json_dump(Dict(<<>>))),
      \* a JSON value that is no object
      FileOf(json_dump(List(<<>>))),
      \* objects with keys missing
      FileOf(json_dump(Dict(<<>>))),
      FileOf(json_dump(Dict([portfolio |-> List(<<SavedPosition>>)]))),
      FileOf(json_dump(Dict([cash_balance |-> Dec(100000)]))),
      \* what the program saved
      SavedFile,
      \* objects written by something else
      FileOf(json_dump(SaveData([portfolio |-> List(<<ForeignPosition>>),
                                 cash_balance |-> Dec(-500)]))),
      FileOf(json_dump(SaveData([portfolio |-> Int_(7),
                                 cash_balance |-> Str("x")]))) }

NoCall == [fn |-> "none"]

\* the disk fails only in sessions that start without a file or with a file
\* the program saved
Init ==
    /\ file \in InitialFiles
    /\ disk \in DiskModes
    /\ disk # "ok" => file \in {NoFile, SavedFile}
    /\ portfolio = load_portfolio_data(file).data.portfolio
    /\ cash_balance = load_portfolio_data(file).data.cash_balance
    /\ notice = (IF load_portfolio_data(file).error THEN "load_failed" ELSE "loaded")
    /\ last_save = "none"
    /\ call = NoCall
    /\ ret = None

\* the row indices of the portfolio on screen (enumerate, line 337)
Rows == IF IsList(portfolio) THEN 0..(Len(portfolio.items) - 1) ELSE {}

Next ==
    \/ Restart
    \/ \E inp \in AddInputs, outcome \in WriteOutcomes(disk) :
          Add(inp[1], inp[2], inp[3], inp[4], inp[5], outcome)
    \/ \E ctx \in SidebarContexts, typed \in CashTyped,
          outcome \in WriteOutcomes(disk) :
          CashEdit(ctx[1], ctx[2], typed, outcome)
    \/ \E ctx \in SidebarContexts, outcome \in WriteOutcomes(disk) :
          Reset(ctx[1], ctx[2], outcome)
    \/ \E ctx \in SidebarContexts, idx \in Rows, typed \in BetaTyped,
          outcome \in WriteOutcomes(disk) :
          BetaEdit(ctx[1], ctx[2], idx, typed, outcome)
    \/ \E ctx \in SidebarContexts, idx \in Rows, outcome \in WriteOutcomes(disk) :
          Delete(ctx[1], ctx[2], idx, outcome)

Spec == Init /\ [][Next]_vars

---------------------------------------------------------------------------
(* Function level: the store's operations applied to drawn portfolios *)

\* positions the drawn portfolios are made of: priced at zero, without
\* shares, and the positions of the documented scenarios
FnPositions ==
    { Dict([ticker |-> Str("T"), price |-> Int_(pv[1]), beta |-> Dec(b),
            name |-> Str("T"), sector |-> Str("Unknown"), shares |-> Int_(pv[2])]) :
        pv \in {<<0, 10>>, <<500, 10>>, <<550, 10>>, <<500, 0>>},
        b \in {-298, 100, 105} }

FnCash == {Dec(0), Dec(100000)}

SeqsUpTo(S, n) == UNION {[1..m -> S] : m \in 0..n}

InitStore ==
    /\ file = NoFile
    /\ disk = "ok"
    /\ notice = "none"
    /\ last_save = "none"
    /\ portfolio \in {List(q) : q \in SeqsUpTo(FnPositions, MaxFnLen)}
    /\ cash_balance \in FnCash
    /\ call = NoCall
    /\ ret = None

\* portfolio_beta = calculate_portfolio_beta() (line 319)
FnCalc ==
    /\ call' = [fn |-> "calculate_portfolio_beta"]
    /\ ret' = calculate_portfolio_beta(session_state)
    /\ UNCHANGED <<file, portfolio, cash_balance, notice, last_save, disk>>

\* st.session_state.portfolio.pop(idx) (line 400), for any index
FnPop(idx) ==
    LET r == pop(portfolio.items, idx)
    IN  /\ call' = [fn |-> "pop", idx |-> idx, before |-> portfolio.items]
        /\ ret' = [raised |-> r.raised]
        /\ portfolio' = List(r.items)
        /\ UNCHANGED <<file, cash_balance, notice, last_save, disk>>

NextStore ==
    \/ FnCalc
    \/ \E idx \in -1..(MaxFnLen + 1) : FnPop(idx)

SpecStore == InitStore /\ [][NextStore]_vars

---------------------------------------------------------------------------
(* Function level: the quote resolver and the risk label *)

\* tickers handed to get_stock_data
FnTickers == {"tqqq", "TQQQ", "Spy", "abc", "ABC"}

\* what the provider may report: every key may be absent, and a key the
\* provider has no figure for may be present with None
InfoKeys == {"currentPrice", "regularMarketPrice", "previousClose", "beta",
             "shortName", "sector"}
FullInfos ==
    { [currentPrice |-> cp, regularMarketPrice |-> Int_(50),
       previousClose |-> Int_(40), beta |-> b,
       shortName |-> Str("Acme"), sector |-> Str("Tech")] :
        cp \in {Int_(0), Int_(60)}, b \in {Dec(150), Dec(-70), None} }
FnReplies ==
    {Raised} \cup
    { Info([k \in keys |-> full[k]]) : keys \in SUBSET InfoKeys, full \in FullInfos }

\* betas handed to get_risk_level: around every threshold, both signs, and a
\* weighted beta that is no decimal (43/42)
FnBetas ==
    { Dec(h) : h \in {-500, -250, -200, -199, -120, -119, -80, -79, -1, 0,
                       1, 79, 80, 119, 120, 199, 200, 250, 298, 500} }
    \cup {Rat(43, 42), Rat(-43, 42)}

InitQuote ==
    /\ file = NoFile
    /\ disk = "ok"
    /\ notice = "none"
    /\ last_save = "none"
    /\ portfolio = List(<<>>)
    /\ cash_balance = Dec(0)
    /\ call = NoCall
    /\ ret = None

\* stock_data = get_stock_data(ticker) (line 280)
FnQuote(ticker, reply) ==
    /\ call' = [fn |-> "get_stock_data", ticker |-> ticker, reply |-> reply]
    /\ ret' = get_stock_data(ticker, reply)
    /\ UNCHANGED <<file, portfolio, cash_balance, notice, last_save, disk>>

\* risk_level, risk_class = get_risk_level(portfolio_beta) (line 320)
FnRisk(beta) ==
    /\ call' = [fn |-> "get_risk_level", beta |-> beta]
    /\ ret' = get_risk_level(beta)
    /\ UNCHANGED <<file, portfolio, cash_balance, notice, last_save, disk>>

NextQuote ==
    \/ \E ticker \in FnTickers, reply \in FnReplies : FnQuote(ticker, reply)
    \/ \E beta \in FnBetas : FnRisk(beta)

SpecQuote == InitQuote /\ [][NextQuote]_vars

---------------------------------------------------------------------------
(* Claims *)

\* document f is an object holding exactly the portfolio list pf and the
\* cash balance cb
Holds(f, pf, cb) ==
    /\ f.exists
    /\ LET r == json_load(f.text)
       IN  /\ r.ok
           /\ IsDict(r.v)
           /\ DOMAIN r.v.o = {"portfolio", "cash_balance"}
           /\ r.v.o["portfolio"] = pf
           /\ r.v.o["cash_balance"] = cb

Persisted == Holds(file, portfolio, cash_balance)

Changed == <<portfolio, cash_balance>>' # <<portfolio, cash_balance>>

\* C1: while writes succeed, every step that changes the portfolio list or
\* the cash balance (add, remove, beta edit, cash edit, clear) leaves the
\* persisted document equal to them, and no later step lets the two differ.
C1_SavedOnEveryChange ==
    [][(disk = "ok" /\ (Changed \/ Persisted))
         => Holds(file', portfolio', cash_balance')]_vars

\* C1 witness: positions and cash were entered and the document holds them
C1_Witness ==
    /\ disk = "ok"
    /\ last_save = "ok"
    /\ IsList(portfolio)
    /\ portfolio.items # <<>>
    /\ cash_balance = Dec(100000)
    /\ portfolio.items[1].o["ticker"] = Str("ABC")
    /\ Persisted

\* C2: a new session that loads what the last successful save wrote gets
\* exactly the positions, in order and field by field, and the cash balance
\* that were saved.
C2_RoundTrip ==
    [][(Restart /\ last_save = "ok")
         => (portfolio' = portfolio /\ cash_balance' = cash_balance
             /\ notice' = "loaded")]_vars

\* C2 witness: a session started from a document the program saved with a
\* position in it
C2_Witness ==
    /\ notice = "loaded"
    /\ last_save = "ok"
    /\ IsList(portfolio)
    /\ portfolio.items # <<>>
    /\ portfolio.items[1].o["ticker"] = Str("TQQQ")
    /\ cash_balance = Dec(100000)

\* a session that has just loaded
Fresh == notice \in {"loaded", "load_failed"}

Parsed == json_load(file.text)

\* the file holds no JSON value
Unparseable == file.exists /\ ~Parsed.ok

\* the file holds a JSON value that is not the document of the program: no
\* object, or an object whose portfolio is no list or whose cash balance is
\* no number
Malformed ==
    /\ file.exists
    /\ Parsed.ok
    /\ \/ ~IsDict(Parsed.v)
       \/ /\ "portfolio" \in DOMAIN Parsed.v.o
          /\ ~IsList(Parsed.v.o["portfolio"])
       \/ /\ "cash_balance" \in DOMAIN Parsed.v.o
          /\ ~IsNum(Parsed.v.o["cash_balance"])

\* C3: load yields (empty list, 0.0) for a missing file, an unparseable file
\* and a malformed document, and for an object with a key missing it yields
\* the default for that key and the stored value for the other.
C3_LoadTolerant ==
    Fresh =>
      /\ (~file.exists \/ Unparseable \/ Malformed)
            => (portfolio = List(<<>>) /\ cash_balance = Dec(0))
      /\ (file.exists /\ Parsed.ok /\ IsDict(Parsed.v) /\ ~Malformed)
            => /\ portfolio = (IF "portfolio" \in DOMAIN Parsed.v.o
                               THEN Parsed.v.o["portfolio"] ELSE List(<<>>))
               /\ cash_balance = (IF "cash_balance" \in DOMAIN Parsed.v.o
                                  THEN Parsed.v.o["cash_balance"] ELSE Dec(0))

\* the lookup of get_stock_data gave nothing: it raised, or the provider
\* returned an empty record
Unusable(reply) == reply.raised \/ ~Truthy(reply.info)

\* C4: an add whose quote lookup is unavailable leaves the portfolio, the
\* cash balance and the document as they were and reports the error.
C4_UnavailableAddsNothing ==
    [][\A inp \in AddInputs, outcome \in WriteOutcomes(disk) :
          ( /\ Add(inp[1], inp[2], inp[3], inp[4], inp[5], outcome)
            /\ Upper(inp[1]) # ""
            /\ Upper(inp[1]) \notin DOMAIN KNOWN_BETAS
            /\ ~SidebarRaises(inp[1], inp[2])
            /\ IsList(portfolio)
            /\ Unusable(inp[3]) )
          => ( /\ portfolio' = portfolio
               /\ cash_balance' = cash_balance
               /\ file' = file
               /\ notice' = "quote_error" )]_vars


\* C5 (independent statement of the weighted mean): the sums taken from the
\* last row backwards
RECURSIVE ValueUpTo(_, _)
ValueUpTo(items, n) ==
    IF n = 0 THEN Int_(0)
    ELSE RAdd(ValueUpTo(items, n - 1),
              RMul(items[n].o["price"], items[n].o["shares"]))

RECURSIVE BetaValueUpTo(_, _)
BetaValueUpTo(items, n) ==
    IF n = 0 THEN Int_(0)
    ELSE RAdd(BetaValueUpTo(items, n - 1),
              RMul(RMul(items[n].o["price"], items[n].o["shares"]),
                   items[n].o["beta"]))

Reordered(items) ==
    { [i \in 1..Len(items) |-> items[f[i]]] : f \in Permutations(1..Len(items)) }

\* C5: the computed beta is 0.0 when the total stock value is 0 and
\* otherwise the value-weighted mean of the betas (beta * total = sum of
\* price * shares * beta); any order of the positions and any cash balance
\* give the same result.
C5_WeightedBeta ==
    call.fn = "calculate_portfolio_beta" =>
      LET items == portfolio.items
          total == ValueUpTo(items, Len(items))
      IN  /\ total = Int_(0) => ret = Dec(0)
          /\ total # Int_(0)
                => RMul(ret, total) = BetaValueUpTo(items, Len(items))
          /\ \A q \in Reordered(items), c \in FnCash :
                calculate_portfolio_beta([portfolio |-> List(q), cash_balance |-> c])
                  = ret

\* C5 witness: the two-position scenario, 5000 at beta 1.05 and 5500 at beta
\* 1.00, gives 10750/10500 = 43/42
C5_Witness ==
    /\ call.fn = "calculate_portfolio_beta"
    /\ Len(portfolio.items) = 2
    /\ portfolio.items[1].o["price"] = Int_(500)
    /\ portfolio.items[1].o["beta"] = Dec(105)
    /\ portfolio.items[2].o["price"] = Int_(550)
    /\ portfolio.items[2].o["beta"] = Dec(100)
    /\ cash_balance = Dec(100000)
    /\ ret = Rat(43, 42)

\* the label of the table for a beta p/q, by its absolute value
TableLabel(beta) ==
    LET a == Abs(beta.p) * 100
    IN  IF a < 80 * beta.q THEN "Low Risk"
        ELSE IF a < 120 * beta.q THEN "Neutral Risk"
        ELSE IF a < 200 * beta.q THEN "Higher Risk"
        ELSE "High Risk"

\* C6: the risk label is the one of the table for |beta|, each lower bound
\* inclusive and each upper bound exclusive, and beta and -beta get the same
\* label.
C6_RiskLabel ==
    call.fn = "get_risk_level" =>
      /\ ret[1] = TableLabel(call.beta)
      /\ get_risk_level(Rat(-call.beta.p, call.beta.q)) = ret

\* C6 witness: beta = 0.8 exactly is labelled Neutral Risk
C6_Witness ==
    /\ call.fn = "get_risk_level"
    /\ call.beta = Dec(80)
    /\ ret[1] = "Neutral Risk"

\* C7: a beta edit with a value outside [-5.0, 5.0] leaves the portfolio, the
\* cash balance and the document unchanged; with a value inside it changes
\* nothing but the beta field of the row edited, which gets the value.
C7_BetaEdit ==
    [][\A ctx \in SidebarContexts, idx \in Rows, typed \in BetaTyped,
          outcome \in WriteOutcomes(disk) :
          BetaEdit(ctx[1], ctx[2], idx, typed, outcome) =>
            IF ~InRange(typed, Dec(BetaMin), Dec(BetaMax))
            THEN /\ portfolio' = portfolio
                 /\ cash_balance' = cash_balance
                 /\ file' = file
            ELSE /\ cash_balance' = cash_balance
                 /\ IsList(portfolio')
                 /\ Len(portfolio'.items) = Len(portfolio.items)
                 /\ \A i \in 1..Len(portfolio.items) :
                       i # idx + 1 => portfolio'.items[i] = portfolio.items[i]
                 /\ DOMAIN portfolio'.items[idx + 1].o
                       = DOMAIN portfolio.items[idx + 1].o
                 /\ \A k \in DOMAIN portfolio.items[idx + 1].o \ {"beta"} :
                       portfolio'.items[idx + 1].o[k] = portfolio.items[idx + 1].o[k]
                 /\ notice' # "exception"
                       => portfolio'.items[idx + 1].o["beta"] = typed]_vars

\* C7 witness: the second of two saved rows was edited to -5.0 and the first
\* row is as it was saved
C7_Witness ==
    /\ IsList(portfolio)
    /\ Len(portfolio.items) = 2
    /\ portfolio.items[1] = SavedPosition
    /\ portfolio.items[2] = DictSet(OtherSavedPosition, "beta", Dec(-500))
    /\ last_save = "ok"

\* C8: removing at an index beyond the length raises and leaves the list
\* unchanged; removing at a valid index deletes that entry and keeps the
\* others in order, those after it one index lower.
C8_RemoveAt ==
    call.fn = "pop" =>
      LET before == call.before
          now == portfolio.items
          n == Len(before)
      IN  /\ call.idx >= n => (ret.raised /\ now = before)
          /\ (0 <= call.idx /\ call.idx < n)
                => /\ ~ret.raised
                   /\ Len(now) = n - 1
                   /\ \A i \in 1..(n - 1) :
                         now[i] = before[IF i <= call.idx THEN i ELSE i + 1]

\* C8 witness: an index equal to the length of a non-empty list
C8_Witness ==
    /\ call.fn = "pop"
    /\ call.before # <<>>
    /\ call.idx = Len(call.before)
    /\ ret.raised

\* C9: the resolved beta is the table's value for a ticker of the table,
\* else the beta the provider reports when it reports one, else 1.0; it is a
\* number whenever the lookup succeeds.
C9_BetaPrecedence ==
    (call.fn = "get_stock_data" /\ ~call.reply.raised) =>
      LET info == call.reply.info
          symbol == Upper(call.ticker)
          reported == "beta" \in DOMAIN info.o /\ info.o["beta"] # None
          beta == ret.o["beta"]
      IN  /\ IsNum(beta)
          /\ beta = (IF symbol \in DOMAIN KNOWN_BETAS THEN KNOWN_BETAS[symbol]
                     ELSE IF reported THEN info.o["beta"]
                     ELSE Dec(100))

\* C10: every stored position has a beta in [-5.0, 5.0] and a share count of
\* at least 0, and the cash balance is at least 0.
C10_DataModel ==
    /\ IsList(portfolio) =>
          \A i \in 1..Len(portfolio.items) :
             /\ InRange(portfolio.items[i].o["beta"], Dec(BetaMin), Dec(BetaMax))
             /\ RLe(Int_(0), portfolio.items[i].o["shares"])
    /\ IsNum(cash_balance) => RLe(Dec(0), cash_balance)

=============================================================================
